---- MODULE Spec2Model ----
(***************************************************************************)
(* Model of note-reader's RAG orchestrator (src/app.py): the NoteReader    *)
(* object, its one-time initialization, the query path summarize_notes     *)
(* served to concurrent callers, and the context assembler format_docs.    *)
(*                                                                         *)
(* Strings are sequences of tokens; concatenation is \o, the empty string  *)
(* is <<>>.  A Python value that may be None is <<>> (None) or <<v>>.      *)
(***************************************************************************)
EXTENDS Naturals, Sequences, FiniteSets, TLC

\* ------------------------------------------------------------ bounds
\* Files that may lie under the notes directory.
NumFiles == 3
\* HTTP callers that may be inside /api/chat at the same time.
NumCallers == 2
\* Queries started over one run of the process.
MaxQueries == 2
\* Length of a retrieval result handed to format_docs in FmtSpec.
MaxDocs == 2

\* ------------------------------------------------------------ constants
\* search_kwargs={"k": 4}
TopK == 4
\* doc.page_content[:200]
PreviewLen == 200

None == <<>>
Some(v) == <<v>>
IsSet(o) == o # <<>>

NoNotesMsg == <<"No notes found. Please add some documents to the ./notes folder.">>
NotInitMsg == <<"Notes system not properly initialized. Please check that you have documents in the ./notes folder.">>
ErrLoadPrefix == <<"Error loading notes: ">>
ErrQueryPrefix == <<"Error processing your question: ">>
DisplayIcon == <<"(page) ">>
DisplayJoin == <<"\n\n">>
Ellipsis == <<"...">>
SourceOpen == <<"[SOURCE: ">>
SourceClose == <<"]\n">>
ContextJoin == <<"\n\n---\n\n">>
PromptHead == <<"You are a helpful notes assistant. (...) Question:\n">>
PromptMid == <<"\n\nContext:\n">>
PromptTail == <<"\n\nAnswer succinctly, (...) list sources at the end.">>

Callers == 1..NumCallers
Questions == {<<"q1">>, <<"q2">>}
\* str(e) of an exception: any text, the empty one included.
ExcMessages == {<<>>, <<"service unavailable">>}
ExcKinds == {"LoadError", "EmbeddingError", "GenerationError", "Exception"}
Excs(kind) == {[kind |-> kind, msg |-> m] : m \in ExcMessages}
\* A failure of one query's external call, with one representative message.
QueryExcs(kind) == {[kind |-> kind, msg |-> <<"service unavailable">>]}

VARIABLES
  files,          \* the notes directory: file index -> "absent" | "good" | "corrupt"
  initPc,         \* position of NoteReader.__init__ / initialize_notes
  raw_docs,       \* local of initialize_notes
  docs,           \* local of initialize_notes: the chunks
  initExc,        \* the exception caught at line 108, if any
  vectorstore,    \* self.vectorstore
  retriever,      \* self.retriever
  rag_chain,      \* self.rag_chain
  notes_content,  \* self.notes_content
  pc,             \* per caller: position inside chat / summarize_notes
  question,       \* per caller: the query argument
  context,        \* per caller: the chain's intermediate context
  exc,            \* per caller: the exception in flight, if any
  result,         \* per caller: the value summarize_notes returned
  embedCalls,     \* per caller: Embedding Gateway calls made by the current query
  genCalls,       \* per caller: Answer Generator calls made by the current query
  started,        \* history: queries started so far
  nFailed,        \* history: queries that ended in an error string so far
  notesResp,      \* what the last GET /api/notes returned
  fdocs,          \* FmtSpec: the retrieval result given to format_docs
  fout,           \* FmtSpec: what format_docs returned
  fpc             \* FmtSpec: "input" | "done"

initVars == <<files, initPc, raw_docs, docs, initExc>>
sharedVars == <<vectorstore, retriever, rag_chain, notes_content>>
callerVars == <<pc, question, context, exc, result, embedCalls, genCalls>>
histVars == <<started, nFailed, notesResp>>
fmtVars == <<fdocs, fout, fpc>>
vars == <<initVars, sharedVars, callerVars, histVars, fmtVars>>

\* ------------------------------------------------------------ helpers
\* sep.join(parts)
RECURSIVE Join(_, _)
Join(sep, parts) ==
  IF parts = <<>> THEN <<>>
  ELSE IF Len(parts) = 1 THEN parts[1]
  ELSE parts[1] \o sep \o Join(sep, Tail(parts))

Min(a, b) == IF a < b THEN a ELSE b
Prefix(s, n) == SubSeq(s, 1, Min(Len(s), n))
Reverse(s) == [i \in 1..Len(s) |-> s[Len(s) + 1 - i]]

\* ------------------------------------------------------------ paths
\* Path(source).name: the path is split at "/", empty and "." components are
\* dropped, and the name is the last component left ("" when none is).
RECURSIVE PathParts(_, _)
PathParts(p, cur) ==
  IF p = <<>> THEN (IF cur \in {<<>>, <<".">>} THEN <<>> ELSE <<cur>>)
  ELSE IF Head(p) = "/"
       THEN (IF cur \in {<<>>, <<".">>} THEN <<>> ELSE <<cur>>) \o PathParts(Tail(p), <<>>)
       ELSE PathParts(Tail(p), Append(cur, Head(p)))

PathName(p) ==
  LET parts == PathParts(p, <<>>)
  IN IF parts = <<>> THEN <<>> ELSE parts[Len(parts)]

\* ------------------------------------------------------------ document loader
ExtCycle == <<"md", "png", "pdf", "txt", "docx">>
Ext(i) == ExtCycle[((i - 1) % Len(ExtCycle)) + 1]
FileName(i) == "f" \o ToString(i) \o "." \o Ext(i)
\* rglob yields paths under notes_dir; odd files lie in a subdirectory.
FilePath(i) ==
  IF i % 2 = 1 THEN <<"notes", "/", "sub", "/", FileName(i)>>
  ELSE <<"notes", "/", FileName(i)>>
FileText(i) == <<"text of f" \o ToString(i)>>
Document(i) == [source |-> FilePath(i), page_content |-> FileText(i)]

\* notes_dir.rglob("*.<ext>"): the files present with that extension.
RECURSIVE Rglob(_, _, _)
Rglob(fs, ext, i) ==
  IF i > NumFiles THEN <<>>
  ELSE (IF fs[i] # "absent" /\ Ext(i) = ext THEN <<i>> ELSE <<>>) \o Rglob(fs, ext, i + 1)

\* Variant: one rglob("*") that takes every file, whatever its extension.
DiscoveryAnyExt(fs) ==
  Rglob(fs, "md", 1) \o Rglob(fs, "txt", 1) \o Rglob(fs, "pdf", 1) \o Rglob(fs, "docx", 1)
    \o Rglob(fs, "png", 1)

\* The order in which load_any_notes visits the files.
Discovery(fs) ==
  Rglob(fs, "md", 1) \o Rglob(fs, "txt", 1) \o Rglob(fs, "pdf", 1) \o Rglob(fs, "docx", 1)

\* The loop bodies docs.extend(Loader(fp).load()): a loader that cannot parse
\* its file raises, and nothing in load_any_notes catches it.
RECURSIVE LoadFrom(_, _, _)
LoadFrom(fs, order, acc) ==
  IF order = <<>> THEN [raised |-> FALSE, docs |-> acc]
  ELSE IF fs[Head(order)] = "corrupt" THEN [raised |-> TRUE, docs |-> <<>>]
  ELSE LoadFrom(fs, Tail(order), Append(acc, Document(Head(order))))

load_any_notes(fs) == LoadFrom(fs, Discovery(fs), <<>>)

\* ------------------------------------------------------------ formatting
\* f"(icon) {filename}\n{doc.page_content[:200]}..."
DisplayEntry(d) ==
  DisplayIcon \o PathName(d.source) \o <<"\n">> \o Prefix(d.page_content, PreviewLen) \o Ellipsis

format_notes_for_display(ds) ==
  Join(DisplayJoin, [i \in 1..Len(ds) |-> DisplayEntry(ds[i])])

\* Variant: the tag carries the source as stored, directories included.
ContextBlockFullPath(d) == SourceOpen \o d.source \o SourceClose \o d.page_content

\* f"[SOURCE: {Path(source).name}]\n{d.page_content}"
ContextBlock(d) == SourceOpen \o PathName(d.source) \o SourceClose \o d.page_content

format_docs(ds) == Join(ContextJoin, [i \in 1..Len(ds) |-> ContextBlock(ds[i])])

\* ------------------------------------------------------------ collaborators
\* text_splitter.split_documents: the documents here are shorter than
\* chunk_size, so each yields one chunk carrying the document's metadata.
split_documents(ds) == ds

\* The retriever: the (at most) k chunks most similar to the question.  The
\* ranking is the embedding's; here each question fixes one ranking.
Ranked(index, q) == IF q = <<"q1">> THEN index ELSE Reverse(index)
similarity_search(index, k, q) == Prefix(Ranked(index, q), k)

\* RAG_PROMPT rendered with {question, context}.
RenderPrompt(q, ctx) == PromptHead \o q \o PromptMid \o ctx \o PromptTail

\* llm | StrOutputParser(): the model's text for a prompt.
LlmText(prompt) == <<"LLM(">> \o prompt \o <<")">>

\* Variant: the handlers name one exception class instead of Exception.
CatchesOnlyGeneration(e) == e.kind = "GenerationError"

\* except Exception as e: every exception of the model is an Exception.
Catches(e) == e.kind \in ExcKinds

\* ------------------------------------------------------------ initialization
\* NoteReader.__init__ up to the call of initialize_notes, over any content of
\* the notes directory (which the module has created if it was missing).
PipelineStart(fs, at) ==
  /\ files = fs
  /\ initPc = at
  /\ raw_docs = <<>>
  /\ docs = <<>>
  /\ initExc = None
  /\ vectorstore = None
  /\ retriever = None
  /\ rag_chain = None
  /\ notes_content = <<>>
  /\ pc = [c \in Callers |-> "idle"]
  /\ question = [c \in Callers |-> <<>>]
  /\ context = [c \in Callers |-> <<>>]
  /\ exc = [c \in Callers |-> None]
  /\ result = [c \in Callers |-> None]
  /\ embedCalls = [c \in Callers |-> 0]
  /\ genCalls = [c \in Callers |-> 0]
  /\ started = 0
  /\ nFailed = 0
  /\ notesResp = None

PipelineInit ==
  \E fs \in [1..NumFiles -> {"absent", "good", "corrupt"}] : PipelineStart(fs, "load")

FmtIdle == fdocs = <<>> /\ fout = <<>> /\ fpc = "off"

\* Variant: the handler only prints the error and stores nothing.
InitExceptPrintsOnly(e) ==
  /\ initExc' = Some(e)
  /\ initPc' = "done"
  /\ UNCHANGED notes_content

\* except Exception as e: self.notes_content = f"Error loading notes: {str(e)}"
\* An exception the handler does not catch leaves __init__.
InitExcept(e) ==
  /\ initExc' = Some(e)
  /\ IF Catches(e)
       THEN /\ notes_content' = ErrLoadPrefix \o e.msg
            /\ initPc' = "done"
       ELSE /\ initPc' = "raised"
            /\ UNCHANGED notes_content

\* raw_docs = load_any_notes(...); if not raw_docs: ... return
InitLoad ==
  /\ initPc = "load"
  /\ LET r == load_any_notes(files) IN
     \/ /\ r.raised
        /\ \E e \in Excs("LoadError") : InitExcept(e)
        /\ UNCHANGED raw_docs
     \/ /\ ~r.raised
        /\ r.docs = <<>>
        /\ notes_content' = NoNotesMsg
        /\ initPc' = "done"
        /\ UNCHANGED <<raw_docs, initExc>>
     \/ /\ ~r.raised
        /\ r.docs # <<>>
        /\ raw_docs' = r.docs
        /\ initPc' = "split"
        /\ UNCHANGED <<notes_content, initExc>>
  /\ UNCHANGED <<files, docs, vectorstore, retriever, rag_chain>>
  /\ UNCHANGED <<callerVars, histVars, fmtVars>>

\* docs = text_splitter.split_documents(raw_docs)
InitSplit ==
  /\ initPc = "split"
  /\ \/ /\ docs' = split_documents(raw_docs)
        /\ initPc' = "index"
        /\ UNCHANGED <<notes_content, initExc>>
     \/ /\ \E e \in Excs("Exception") : InitExcept(e)
        /\ UNCHANGED docs
  /\ UNCHANGED <<files, raw_docs, vectorstore, retriever, rag_chain>>
  /\ UNCHANGED <<callerVars, histVars, fmtVars>>

\* self.vectorstore = FAISS.from_documents(docs, embeddings): the batch call of
\* the Embedding Gateway, which may fail.
InitIndex ==
  /\ initPc = "index"
  /\ \/ /\ vectorstore' = Some(docs)
        /\ initPc' = "retriever"
        /\ UNCHANGED <<notes_content, initExc>>
     \/ /\ \E e \in Excs("EmbeddingError") : InitExcept(e)
        /\ UNCHANGED vectorstore
  /\ UNCHANGED <<files, raw_docs, docs, retriever, rag_chain>>
  /\ UNCHANGED <<callerVars, histVars, fmtVars>>

\* self.retriever = self.vectorstore.as_retriever(search_kwargs={"k": 4})
InitRetriever ==
  /\ initPc = "retriever"
  /\ \/ /\ retriever' = Some([index |-> vectorstore[1], k |-> TopK])
        /\ initPc' = "display"
        /\ UNCHANGED <<notes_content, initExc>>
     \/ /\ \E e \in Excs("Exception") : InitExcept(e)
        /\ UNCHANGED retriever
  /\ UNCHANGED <<files, raw_docs, docs, vectorstore, rag_chain>>
  /\ UNCHANGED <<callerVars, histVars, fmtVars>>

\* self.notes_content = self.format_notes_for_display(raw_docs)
InitDisplay ==
  /\ initPc = "display"
  /\ \/ /\ notes_content' = format_notes_for_display(raw_docs)
        /\ initPc' = "chain"
        /\ UNCHANGED initExc
     \/ \E e \in Excs("Exception") : InitExcept(e)
  /\ UNCHANGED <<files, raw_docs, docs, vectorstore, retriever, rag_chain>>
  /\ UNCHANGED <<callerVars, histVars, fmtVars>>

\* Variant: a statement after the assignment of self.rag_chain fails, so the
\* handler runs with the chain already in place.
InitChainFailsLate ==
  /\ initPc = "chain"
  /\ \/ /\ rag_chain' = Some([retriever |-> retriever[1]])
        /\ initPc' = "done"
        /\ UNCHANGED <<notes_content, initExc>>
     \/ /\ \E e \in Excs("Exception") : InitExcept(e)
        /\ rag_chain' = Some([retriever |-> retriever[1]])
  /\ UNCHANGED <<files, raw_docs, docs, vectorstore, retriever>>
  /\ UNCHANGED <<callerVars, histVars, fmtVars>>

\* self.setup_rag_chain(): returns early without a retriever; the assignment
\* of self.rag_chain is its last statement, so a failure inside leaves it None.
InitChain ==
  /\ initPc = "chain"
  /\ \/ /\ rag_chain' = IF ~IsSet(retriever) THEN rag_chain
                        ELSE Some([retriever |-> retriever[1]])
        /\ initPc' = "done"
        /\ UNCHANGED <<notes_content, initExc>>
     \/ /\ \E e \in Excs("Exception") : InitExcept(e)
        /\ UNCHANGED rag_chain
  /\ UNCHANGED <<files, raw_docs, docs, vectorstore, retriever>>
  /\ UNCHANGED <<callerVars, histVars, fmtVars>>

\* The orchestrator's state, read off the fields of NoteReader: the code keeps
\* no state field of its own.
PipelineState ==
  IF initPc = "raised" THEN "Crashed"
  ELSE IF initPc # "done" THEN "Indexing"
  ELSE IF IsSet(rag_chain) /\ ~IsSet(initExc) THEN "Ready"
  ELSE IF ~IsSet(rag_chain) /\ ~IsSet(initExc) /\ notes_content = NoNotesMsg
       THEN "DegradedNoDocuments"
  ELSE IF ~IsSet(rag_chain) /\ IsSet(initExc) THEN "Failed"
  ELSE "Inconsistent"

\* ------------------------------------------------------------ queries
\* Variant: a call that finds no chain starts initialization over.
CallRetriesInit(c, q) ==
  /\ initPc = "done"
  /\ pc[c] = "idle"
  /\ started < MaxQueries
  /\ started' = started + 1
  /\ question' = [question EXCEPT ![c] = q]
  /\ IF ~IsSet(rag_chain)
       THEN /\ result' = [result EXCEPT ![c] = Some(NotInitMsg)]
            /\ pc' = [pc EXCEPT ![c] = "returned"]
            /\ initPc' = "load"
       ELSE /\ pc' = [pc EXCEPT ![c] = "retrieve"]
            /\ UNCHANGED <<result, initPc>>
  /\ UNCHANGED <<context, exc, embedCalls, genCalls, nFailed, notesResp>>
  /\ UNCHANGED <<files, raw_docs, docs, initExc, sharedVars, fmtVars>>

\* POST /api/chat with a non-empty message: chat() calls summarize_notes, whose
\* first statement answers at once when there is no chain.  The module builds
\* note_reader before the server starts, so no call precedes initialization.
Call(c, q) ==
  /\ initPc = "done"
  /\ pc[c] = "idle"
  /\ started < MaxQueries
  /\ started' = started + 1
  /\ question' = [question EXCEPT ![c] = q]
  /\ IF ~IsSet(rag_chain)
       THEN /\ result' = [result EXCEPT ![c] = Some(NotInitMsg)]
            /\ pc' = [pc EXCEPT ![c] = "returned"]
       ELSE /\ pc' = [pc EXCEPT ![c] = "retrieve"]
            /\ UNCHANGED result
  /\ UNCHANGED <<context, exc, embedCalls, genCalls, nFailed, notesResp>>
  /\ UNCHANGED <<initVars, sharedVars, fmtVars>>

\* Variant: the context is kept in one slot that all callers share.
ChainRetrieveSharedContext(c) ==
  /\ pc[c] = "retrieve"
  /\ embedCalls' = [embedCalls EXCEPT ![c] = @ + 1]
  /\ \/ /\ LET r == rag_chain[1].retriever
           IN context' = [d \in Callers |->
                            format_docs(similarity_search(r.index, r.k, question[c]))]
        /\ pc' = [pc EXCEPT ![c] = "generate"]
        /\ UNCHANGED exc
     \/ /\ \E e \in QueryExcs("EmbeddingError") : exc' = [exc EXCEPT ![c] = Some(e)]
        /\ pc' = [pc EXCEPT ![c] = "except"]
        /\ UNCHANGED context
  /\ UNCHANGED <<question, result, genCalls, histVars>>
  /\ UNCHANGED <<initVars, sharedVars, fmtVars>>

\* self.rag_chain.invoke(query), first half: the retriever embeds the question
\* (Embedding Gateway), searches the index, and format_docs builds the context.
ChainRetrieve(c) ==
  /\ pc[c] = "retrieve"
  /\ embedCalls' = [embedCalls EXCEPT ![c] = @ + 1]
  /\ \/ /\ LET r == rag_chain[1].retriever
           IN context' = [context EXCEPT ![c] =
                            format_docs(similarity_search(r.index, r.k, question[c]))]
        /\ pc' = [pc EXCEPT ![c] = "generate"]
        /\ UNCHANGED exc
     \/ /\ \E e \in QueryExcs("EmbeddingError") : exc' = [exc EXCEPT ![c] = Some(e)]
        /\ pc' = [pc EXCEPT ![c] = "except"]
        /\ UNCHANGED context
  /\ UNCHANGED <<question, result, genCalls, histVars>>
  /\ UNCHANGED <<initVars, sharedVars, fmtVars>>

\* self.rag_chain.invoke(query), second half: the prompt is rendered and sent
\* to the Answer Generator; its text is the response, returned as it is.
ChainGenerate(c) ==
  /\ pc[c] = "generate"
  /\ genCalls' = [genCalls EXCEPT ![c] = @ + 1]
  /\ \/ /\ result' = [result EXCEPT ![c] =
                        Some(LlmText(RenderPrompt(question[c], context[c])))]
        /\ pc' = [pc EXCEPT ![c] = "returned"]
        /\ UNCHANGED exc
     \/ /\ \E e \in QueryExcs("GenerationError") : exc' = [exc EXCEPT ![c] = Some(e)]
        /\ pc' = [pc EXCEPT ![c] = "except"]
        /\ UNCHANGED result
  /\ UNCHANGED <<question, context, embedCalls, histVars>>
  /\ UNCHANGED <<initVars, sharedVars, fmtVars>>

\* Variant: the handler also drops the chain after a failed query.
QueryExceptResetsChain(c) ==
  /\ pc[c] = "except"
  /\ result' = [result EXCEPT ![c] = Some(ErrQueryPrefix \o exc[c][1].msg)]
  /\ pc' = [pc EXCEPT ![c] = "returned"]
  /\ nFailed' = nFailed + 1
  /\ rag_chain' = None
  /\ UNCHANGED <<question, context, exc, embedCalls, genCalls, started, notesResp>>
  /\ UNCHANGED <<initVars, vectorstore, retriever, notes_content, fmtVars>>

\* except Exception as e: return f"Error processing your question: {str(e)}"
\* An exception the handler does not catch leaves summarize_notes.
QueryExcept(c) ==
  /\ pc[c] = "except"
  /\ IF Catches(exc[c][1])
       THEN /\ result' = [result EXCEPT ![c] = Some(ErrQueryPrefix \o exc[c][1].msg)]
            /\ pc' = [pc EXCEPT ![c] = "returned"]
            /\ nFailed' = nFailed + 1
       ELSE /\ pc' = [pc EXCEPT ![c] = "raised"]
            /\ UNCHANGED <<result, nFailed>>
  /\ UNCHANGED <<question, context, exc, embedCalls, genCalls, started, notesResp>>
  /\ UNCHANGED <<initVars, sharedVars, fmtVars>>

\* chat() wraps the returned string in its JSON response; the caller is done.
Return(c) ==
  /\ pc[c] = "returned"
  /\ pc' = [pc EXCEPT ![c] = "idle"]
  /\ question' = [question EXCEPT ![c] = <<>>]
  /\ context' = [context EXCEPT ![c] = <<>>]
  /\ exc' = [exc EXCEPT ![c] = None]
  /\ result' = [result EXCEPT ![c] = None]
  /\ embedCalls' = [embedCalls EXCEPT ![c] = 0]
  /\ genCalls' = [genCalls EXCEPT ![c] = 0]
  /\ UNCHANGED <<histVars, initVars, sharedVars, fmtVars>>

\* GET /api/notes: read_notes returns self.notes_content.
ReadNotes ==
  /\ initPc = "done"
  /\ notesResp' = Some(notes_content)
  /\ UNCHANGED <<started, nFailed, callerVars, initVars, sharedVars, fmtVars>>

Init == PipelineInit /\ FmtIdle

Next ==
  \/ InitLoad
  \/ InitSplit
  \/ InitIndex
  \/ InitRetriever
  \/ InitDisplay
  \/ InitChain
  \/ \E c \in Callers, q \in Questions : Call(c, q)
  \/ \E c \in Callers : ChainRetrieve(c)
  \/ \E c \in Callers : ChainGenerate(c)
  \/ \E c \in Callers : QueryExcept(c)
  \/ \E c \in Callers : Return(c)
  \/ ReadNotes

Spec == Init /\ [][Next]_vars

\* ------------------------------------------------------------ format_docs alone
SourcePool ==
  { <<"unknown.md">>,
    <<"notes", "/", "a.md">>,
    <<"notes", "/", "sub", "/", "b.txt">>,
    <<"notes", "/", "my", ".", "notes", ".", "md">>,
    <<".", "/", "notes", "/", "d.docx">>,
    <<"/", "home", "/", "u", "/", "notes", "/", "c.pdf">> }
TextPool == { <<>>, <<"alpha">>, <<"beta", "\n\n", "gamma">> }
DocPool == {[source |-> p, page_content |-> t] : p \in SourcePool, t \in TextPool}
RECURSIVE SeqsUpTo(_, _)
SeqsUpTo(S, n) ==
  IF n = 0 THEN {<<>>}
  ELSE LET shorter == SeqsUpTo(S, n - 1)
       IN shorter \cup {Append(s, x) : s \in {t \in shorter : Len(t) = n - 1}, x \in S}

FmtInit ==
  /\ PipelineStart([i \in 1..NumFiles |-> "absent"], "off")
  /\ fdocs \in SeqsUpTo(DocPool, MaxDocs)
  /\ fout = <<>>
  /\ fpc = "input"

\* The chain's step  retriever | self.format_docs  on one retrieval result.
FormatDocs ==
  /\ fpc = "input"
  /\ fout' = format_docs(fdocs)
  /\ fpc' = "done"
  /\ UNCHANGED <<fdocs, initVars, sharedVars, callerVars, histVars>>

FmtNext == FormatDocs

FmtSpec == FmtInit /\ [][FmtNext]_vars

\* ------------------------------------------------------------ properties
SupportedExts == {"md", "txt", "pdf", "docx"}
Supported(i) == Ext(i) \in SupportedExts
NoMatchingFiles(fs) == \A i \in 1..NumFiles : fs[i] # "absent" => ~Supported(i)
InFlight == {"retrieve", "generate", "except"}
IsErrorString(s) == Len(s) >= 1 /\ s[1] = ErrQueryPrefix[1]
IsAnswer(s) == Len(s) >= 1 /\ s[1] = "LLM("
NoExternalCalls == \A c \in Callers : embedCalls[c] = 0 /\ genCalls[c] = 0

\* What one call returns when it runs with no other call in the system: a
\* function of the chain, its own question and its own external failure.
AloneAnswer(chain, q, e) ==
  IF ~IsSet(chain) THEN NotInitMsg
  ELSE IF IsSet(e) THEN ErrQueryPrefix \o e[1].msg
  ELSE LlmText(RenderPrompt(q,
         format_docs(similarity_search(chain[1].retriever.index, chain[1].retriever.k, q))))

\* C1: in every pipeline state and for every outcome of the external calls, a
\* summarize_notes call never lets an exception out, is never stuck before its
\* return, and returns a string: the advisory, an error message or the answer.
C1_AnswerReturnsString ==
  \A c \in Callers :
    /\ pc[c] # "raised"
    /\ pc[c] \in InFlight =>
         ENABLED (ChainRetrieve(c) \/ ChainGenerate(c) \/ QueryExcept(c))
    /\ pc[c] = "returned" =>
         /\ IsSet(result[c])
         /\ \/ result[c][1] = NotInitMsg
            \/ IsErrorString(result[c][1])
            \/ IsAnswer(result[c][1])
         /\ IsSet(exc[c]) => IsErrorString(result[c][1])

\* C1 witness: a call whose generation failed has returned its error string.
C1_Witness ==
  \E c \in Callers :
    /\ pc[c] = "returned"
    /\ IsSet(exc[c]) /\ exc[c][1].kind = "GenerationError"
    /\ IsErrorString(result[c][1])

\* C2: with no matching file under the notes directory, initialization ends in
\* DegradedNoDocuments, and every call then returns the advisory with no call
\* of the Embedding Gateway or the Answer Generator.
C2_DegradedNeverCallsOut ==
  (NoMatchingFiles(files) /\ initPc \notin {"load"}) =>
    /\ PipelineState = "DegradedNoDocuments"
    /\ NoExternalCalls
    /\ \A c \in Callers :
         /\ pc[c] \in {"idle", "returned"}
         /\ pc[c] = "returned" => result[c] = Some(NotInitMsg)

\* C2 witness: cold start (an empty directory), every query of the run started,
\* one answered with the advisory.
C2_Witness ==
  /\ \A i \in 1..NumFiles : files[i] = "absent"
  /\ started = MaxQueries
  /\ \E c \in Callers : pc[c] = "returned" /\ result[c] = Some(NotInitMsg)

FailedAtIndexing == IsSet(initExc) /\ initExc[1].kind = "EmbeddingError"

RECURSIVE ParsableDocs(_, _)
ParsableDocs(fs, order) ==
  IF order = <<>> THEN <<>>
  ELSE (IF fs[Head(order)] = "good" THEN <<Document(Head(order))>> ELSE <<>>)
         \o ParsableDocs(fs, Tail(order))

\* C4: when one supported file fails to parse and another parses, the loader
\* returns the documents of the files that parse and initialization goes on
\* with them instead of ending in Failed on the load error.
C4_LoaderSkipsFailingFile ==
  ( /\ initPc # "load"
    /\ \E i \in 1..NumFiles : Supported(i) /\ files[i] = "corrupt"
    /\ \E i \in 1..NumFiles : Supported(i) /\ files[i] = "good" ) =>
      /\ raw_docs = ParsableDocs(files, Discovery(files))
      /\ ~(IsSet(initExc) /\ initExc[1].kind = "LoadError")

\* C5: in Ready, no step (a failing external call and its handling included)
\* changes the shared fields or leaves Ready; a failed call returns an error
\* string, and a call whose external calls succeed returns the generator's
\* text, whatever failed before it.
C5_QueryFailureKeepsReady ==
  [][ PipelineState = "Ready" =>
        /\ UNCHANGED sharedVars
        /\ PipelineState' = "Ready"
        /\ \A c \in Callers :
             /\ (pc[c] = "except" /\ pc'[c] # "except") =>
                  /\ pc'[c] = "returned"
                  /\ result'[c] = Some(ErrQueryPrefix \o exc[c][1].msg)
             /\ (pc'[c] = "returned" /\ ~IsSet(exc'[c])) =>
                  result'[c] = Some(LlmText(RenderPrompt(question'[c],
                     format_docs(similarity_search(vectorstore'[1], TopK, question'[c])))))
    ]_vars

\* C5 witness: one query has ended in an error string, and a call whose
\* external calls succeeded has returned the generator's text.
C5_Witness ==
  /\ PipelineState = "Ready"
  /\ nFailed >= 1
  /\ \E c \in Callers : pc[c] = "returned" /\ ~IsSet(exc[c]) /\ IsAnswer(result[c][1])

InitRank(at) ==
  CASE at = "load" -> 1 [] at = "split" -> 2 [] at = "index" -> 3
    [] at = "retriever" -> 4 [] at = "display" -> 5 [] at = "chain" -> 6
    [] OTHER -> 7

\* C6: initialization only moves forward (each step runs once), no query or
\* notes request is served before it has ended, it ends in exactly one of
\* Ready, DegradedNoDocuments and Failed, and nothing after it changes the
\* state, the index or the stored text.
C6_InitOnceThenFrozen ==
  [][ /\ initPc' # initPc => InitRank(initPc') > InitRank(initPc)
      /\ ((\E c \in Callers : pc'[c] # "idle") \/ IsSet(notesResp')) => initPc = "done"
      /\ initPc' = "done" =>
           PipelineState' \in {"Ready", "DegradedNoDocuments", "Failed"}
      /\ initPc = "done" =>
           /\ initPc' = "done"
           /\ UNCHANGED sharedVars
           /\ PipelineState' = PipelineState
    ]_vars

\* C6 witness: Ready, with every query of the run started and the notes read.
C6_Witness ==
  /\ PipelineState = "Ready"
  /\ started = MaxQueries
  /\ IsSet(notesResp)
  /\ \E c \in Callers : pc[c] = "returned"

\* C7: whatever the interleaving of the callers' steps, no step of a call
\* writes the shared fields, and a call returns what it would return alone:
\* a function of the chain, its own question and its own external failure.
C7_ConcurrentCallsIndependent ==
  [][ /\ (\E c \in Callers : pc'[c] # pc[c]) => UNCHANGED sharedVars
      /\ \A c \in Callers :
           pc'[c] = "returned" =>
             result'[c] = Some(AloneAnswer(rag_chain', question'[c], exc'[c]))
    ]_vars

\* C7 witness: two calls with different questions are in flight together, one
\* returned with an answer while the other is between its two external calls.
C7_Witness ==
  \E c, d \in Callers :
    /\ c # d
    /\ question[c] # question[d]
    /\ pc[c] = "returned" /\ IsAnswer(result[c][1])
    /\ pc[d] = "generate"
    /\ Len(vectorstore[1]) >= 2

\* The text after the last "/" of a path.
RECURSIVE LastComponent(_)
LastComponent(p) ==
  IF p = <<>> THEN <<>>
  ELSE IF p[Len(p)] = "/" THEN <<>>
  ELSE Append(LastComponent(SubSeq(p, 1, Len(p) - 1)), p[Len(p)])

\* text.split(sep) for a one-token separator.
RECURSIVE SplitOn(_, _, _)
SplitOn(s, sep, cur) ==
  IF s = <<>> THEN <<cur>>
  ELSE IF Head(s) = sep THEN <<cur>> \o SplitOn(Tail(s), sep, <<>>)
  ELSE SplitOn(Tail(s), sep, Append(cur, Head(s)))

\* C8: format_docs returns the empty string for an empty result, and otherwise
\* one block per chunk, in the result's order, joined by the separator; each
\* block is [SOURCE: <name>], a line break and the chunk text, where <name> is
\* the part of the source after its last "/" and holds no "/".
C8_ContextBlocksInOrder ==
  fpc = "done" =>
    IF fdocs = <<>> THEN fout = <<>>
    ELSE LET blocks == SplitOn(fout, ContextJoin[1], <<>>)
         IN /\ Len(blocks) = Len(fdocs)
            /\ \A i \in 1..Len(fdocs) :
                 LET name == LastComponent(fdocs[i].source)
                 IN /\ \A j \in 1..Len(name) : name[j] # "/"
                    /\ blocks[i] = SourceOpen \o name \o SourceClose \o fdocs[i].page_content

\* C8 witness: two chunks from different directories, formatted.
C8_Witness ==
  /\ fpc = "done"
  /\ Len(fdocs) = 2
  /\ fdocs[1].source = <<"/", "home", "/", "u", "/", "notes", "/", "c.pdf">>
  /\ fdocs[2].source = <<"notes", "/", "sub", "/", "b.txt">>
  /\ fdocs[1].page_content # fdocs[2].page_content

\* C10: the chain is set only when the retriever and the vector store are set
\* and notes_content holds the corpus summary (neither the "No notes found"
\* advisory nor an "Error loading notes" text), and a call is inside the chain
\* only when the index was fully built.
C10_ChainImpliesFullyBuilt ==
  /\ IsSet(rag_chain) =>
       /\ IsSet(retriever) /\ IsSet(vectorstore)
       /\ rag_chain[1].retriever = retriever[1]
       /\ retriever[1].index = vectorstore[1]
       /\ ~IsSet(initExc)
       /\ notes_content = format_notes_for_display(raw_docs)
       /\ notes_content # NoNotesMsg
       /\ notes_content[1] # ErrLoadPrefix[1]
  /\ \A c \in Callers :
       pc[c] \in {"retrieve", "generate"} => (IsSet(rag_chain) /\ initPc = "done")

\* C10 witness: an exception after the retriever was made left the vector store
\* and the retriever set and the chain unset, and a call was answered without
\* entering the chain.
C10_Witness ==
  /\ initPc = "done"
  /\ IsSet(vectorstore) /\ IsSet(retriever) /\ ~IsSet(rag_chain)
  /\ IsSet(initExc)
  /\ \E c \in Callers : pc[c] = "returned" /\ result[c] = Some(NotInitMsg)
====
